---- MODULE Spec2Model ----
(***************************************************************************)
(* Two-stage stochastic generation expansion planning (Stochastic-GEP.py). *)
(*                                                                         *)
(* The script declares an abstract model (sets, parameters, variables,     *)
(* one objective, five constraint families), loads data, creates an        *)
(* instance, hands it to a MILP solver and prints / writes the investment  *)
(* results when the solver reports an optimal solution.                    *)
(*                                                                         *)
(* Fixed-point representation of the real-valued quantities:               *)
(*   pScProb   is counted in units of 1/ProbScale  (ProbScale = 1.0)       *)
(*   pAviProf  is counted in units of 1/AviScale   (AviScale  = 1.0)       *)
(*   vInvesCost, vOperaCost are counted in units of 1/ProbScale of the     *)
(*   cost unit of pInvCost / pVarCost / pENSCost, so that both totals are  *)
(*   integers and add up in the objective.                                 *)
(*   vProduct and vENS range over a grid of whole MW.                      *)
(***************************************************************************)
EXTENDS Integers, FiniteSets, Sequences, TLC

VARIABLES
  data,      \* contents of the DataPortal (lines 99-114)
  instance,  \* the concrete model instance (line 117), variables included
  results,   \* what opt.solve returned (line 126)
  stdout,    \* what the script printed
  csv,       \* rows written to oGEP_Invest_Result.csv (none while it is not written)
  pc         \* position of the script

vars == <<data, instance, results, stdout, csv, pc>>

----------------------------------------------------------------------------
(* Bounds of the model *)

MaxDemand == 2
MaxUnits == 2
ProbScale == 2
AviScale == 2

None == "None"

----------------------------------------------------------------------------
(* Helpers *)

Range(s) == {s[i] : i \in DOMAIN s}

RECURSIVE SumOver(_, _)
\* Python's sum(f[k] for k in S)
SumOver(f, S) ==
  IF S = {} THEN 0
  ELSE LET k == CHOOSE k \in S : TRUE
       IN  f[k] + SumOver(f, S \ {k})

Minimum(S) == CHOOSE v \in S : \A w \in S : v <= w

Maximum(S) == CHOOSE v \in S : \A w \in S : v >= w

----------------------------------------------------------------------------
(* Model schema: parameter and variable domains *)

\* pyo.NonNegativeReals / pyo.Integers on the fixed-point grid
InDomain(domain, v) ==
  CASE domain = "NonNegativeReals" -> v >= 0
    [] domain = "NonNegativeIntegers" -> v >= 0
    [] domain = "Integers" -> TRUE
    [] domain = "Reals" -> TRUE

\* within= of the scalar parameters; the indexed parameters declare none
pWeight_within == "NonNegativeReals"

pENSCost_within == "NonNegativeReals"

vInvesCost_domain == "NonNegativeReals"

vOperaCost_domain == "NonNegativeReals"

vProduct_domain == "NonNegativeReals"

vInstalUnits_domain == "Integers"

vENS_domain == "NonNegativeReals"

\* mutant: the default availability is left out (0 where none is supplied)
pAviProf_mutant(model, sc, g, p) ==
  IF <<sc, g, p>> \in DOMAIN model.pAviProf
  THEN model.pAviProf[<<sc, g, p>>]
  ELSE 0

\* mGEP.pAviProf = pyo.Param(sc, g, p, default=1, mutable=True)
pAviProf_default == AviScale

pAviProf(model, sc, g, p) ==
  IF <<sc, g, p>> \in DOMAIN model.pAviProf
  THEN model.pAviProf[<<sc, g, p>>]
  ELSE pAviProf_default

----------------------------------------------------------------------------
(* Objective and constraint rules *)

\* right-hand side of eInvesCost, in units of 1/ProbScale
InvesCostExpr(model) ==
  ProbScale * SumOver([g \in Range(model.g) |->
                         model.pInvCost[g] * model.pUnitCap[g] * model.vInstalUnits[g]],
                      Range(model.g))

\* mutant: the weight of the representative period is left out
OperaCostExpr_noWeight(model) ==
  SumOver([k \in model.sc \X Range(model.g) \X model.p |->
             model.pScProb[k[1]] * model.pVarCost[k[2]] * model.vProduct[k]],
          model.sc \X Range(model.g) \X model.p)
  + SumOver([k \in model.sc \X model.p |->
               model.pScProb[k[1]] * model.pENSCost * model.vENS[k]],
            model.sc \X model.p)

\* mutant: the production cost enters with the wrong sign
OperaCostExpr_wrongSign(model) ==
  model.pWeight *
    ( SumOver([k \in model.sc \X model.p |->
                 model.pScProb[k[1]] * model.pENSCost * model.vENS[k]],
              model.sc \X model.p)
    - SumOver([k \in model.sc \X Range(model.g) \X model.p |->
                 model.pScProb[k[1]] * model.pVarCost[k[2]] * model.vProduct[k]],
              model.sc \X Range(model.g) \X model.p) )

\* right-hand side of eOperaCost, in units of 1/ProbScale
OperaCostExpr(model) ==
  model.pWeight *
    ( SumOver([k \in model.sc \X Range(model.g) \X model.p |->
                 model.pScProb[k[1]] * model.pVarCost[k[2]] * model.vProduct[k]],
              model.sc \X Range(model.g) \X model.p)
    + SumOver([k \in model.sc \X model.p |->
                 model.pScProb[k[1]] * model.pENSCost * model.vENS[k]],
              model.sc \X model.p) )

eTotalCost(model) == model.vInvesCost + model.vOperaCost

eInvesCost(model) == model.vInvesCost = InvesCostExpr(model)

eOperaCost(model) == model.vOperaCost = OperaCostExpr(model)

\* mutant: the balance is an inequality
eBalance_mutant(model, sc, p) ==
  SumOver([g \in Range(model.g) |-> model.vProduct[<<sc, g, p>>]], Range(model.g))
    + model.vENS[<<sc, p>>] <= model.pDemand[p]

eBalance(model, sc, p) ==
  SumOver([g \in Range(model.g) |-> model.vProduct[<<sc, g, p>>]], Range(model.g))
    + model.vENS[<<sc, p>>] = model.pDemand[p]

\* mutant: the unit capacity is left out of the limit
eMaxProd_mutant(model, sc, g, p) ==
  AviScale * model.vProduct[<<sc, g, p>>]
    <= pAviProf(model, sc, g, p) * model.vInstalUnits[g]

eMaxProd(model, sc, g, p) ==
  AviScale * model.vProduct[<<sc, g, p>>]
    <= pAviProf(model, sc, g, p) * model.pUnitCap[g] * model.vInstalUnits[g]

\* mutant: the ceiling is strict
eENSProd_mutant(model, sc, p) == model.vENS[<<sc, p>>] < model.pDemand[p]

eENSProd(model, sc, p) == model.vENS[<<sc, p>>] <= model.pDemand[p]

\* every variable value lies in its declared domain
VarDomains(model) ==
  /\ InDomain(vInvesCost_domain, model.vInvesCost)
  /\ InDomain(vOperaCost_domain, model.vOperaCost)
  /\ \A k \in DOMAIN model.vProduct : InDomain(vProduct_domain, model.vProduct[k])
  /\ \A g \in DOMAIN model.vInstalUnits : InDomain(vInstalUnits_domain, model.vInstalUnits[g])
  /\ \A k \in DOMAIN model.vENS : InDomain(vENS_domain, model.vENS[k])

\* an assignment the instance accepts: every materialized row holds
Satisfies(model) ==
  /\ VarDomains(model)
  /\ eInvesCost(model)
  /\ eOperaCost(model)
  /\ \A k \in model.eBalance_index : eBalance(model, k[1], k[2])
  /\ \A k \in model.eMaxProd_index : eMaxProd(model, k[1], k[2], k[3])
  /\ \A k \in model.eENSProd_index : eENSProd(model, k[1], k[2])

----------------------------------------------------------------------------
(* The solver (opt.solve, line 126), as its contract: it searches the      *)
(* assignments the instance accepts.  Values are searched on a window of   *)
(* each variable's domain.                                                 *)

Window(domain, hi) == IF InDomain(domain, -1) THEN -1..hi ELSE 0..hi

GridMax(model) == Maximum({0} \cup {model.pDemand[p] : p \in model.p})

UnitChoices(model) == [Range(model.g) -> Window(vInstalUnits_domain, MaxUnits)]

\* the model with one row's production and unserved energy filled in
WithRow(model, r) ==
  [model EXCEPT !.vProduct = [k \in model.sc \X Range(model.g) \X model.p |-> r.prod[k[2]]],
                !.vENS = [k \in model.sc \X model.p |-> r.ens]]

\* the second-stage values of row (sc,p) that its constraint rows accept
RowChoices(model, sc, p) ==
  { r \in [prod : [Range(model.g) -> Window(vProduct_domain, GridMax(model))],
           ens : Window(vENS_domain, GridMax(model))] :
      LET m == WithRow(model, r)
      IN  /\ \A g \in Range(model.g) : InDomain(vProduct_domain, r.prod[g])
          /\ InDomain(vENS_domain, r.ens)
          /\ <<sc, p>> \in model.eBalance_index => eBalance(m, sc, p)
          /\ \A g \in Range(model.g) :
               <<sc, g, p>> \in model.eMaxProd_index => eMaxProd(m, sc, g, p)
          /\ <<sc, p>> \in model.eENSProd_index => eENSProd(m, sc, p) }

\* the model with all variable values loaded; the two cost totals take the
\* only values their defining equalities allow
Load(model, units, rows) ==
  LET m1 == [model EXCEPT
               !.stale = FALSE,
               !.vInstalUnits = units,
               !.vProduct = [k \in model.sc \X Range(model.g) \X model.p |->
                               rows[<<k[1], k[3]>>].prod[k[2]]],
               !.vENS = [k \in model.sc \X model.p |-> rows[k].ens]]
  IN  [m1 EXCEPT !.vInvesCost = InvesCostExpr(m1), !.vOperaCost = OperaCostExpr(m1)]

SolutionsWith(model, units) ==
  LET m0 == [model EXCEPT !.vInstalUnits = units]
      choices == [k \in model.sc \X model.p |-> RowChoices(m0, k[1], k[2])]
      all == UNION {choices[k] : k \in model.sc \X model.p}
      loaded == { Load(model, units, rows) :
                    rows \in { f \in [model.sc \X model.p -> all] :
                                 \A k \in model.sc \X model.p : f[k] \in choices[k] } }
  IN  { m \in loaded : Satisfies(m) }

\* every assignment (on the window) that the instance accepts
Solutions(model) == UNION { SolutionsWith(model, units) : units \in UnitChoices(model) }

OptimalSolutions(sols) ==
  LET best == Minimum({eTotalCost(s) : s \in sols})
  IN  { s \in sols : eTotalCost(s) = best }

\* a step along the installed-units axes that leaves every bounded row slack behind
FarStep(model) == 1 + model.vInvesCost + AviScale * MaxUnits * Maximum({model.pUnitCap[g] : g \in Range(model.g)})

Shifted(model, d) ==
  LET m1 == [model EXCEPT !.vInstalUnits =
               [g \in Range(model.g) |-> model.vInstalUnits[g] + FarStep(model) * d[g]]]
  IN  [m1 EXCEPT !.vInvesCost = InvesCostExpr(m1)]

\* the objective decreases without limit along some direction of the accepted
\* set (the directions of a set of linear rows are the same at each of its points)
Unbounded(sols) ==
  LET s == CHOOSE s \in sols : TRUE
  IN  \E d \in [Range(s.g) -> {-1, 0, 1}] :
        /\ Satisfies(Shifted(s, d))
        /\ eTotalCost(Shifted(s, d)) < eTotalCost(s)

\* results.solver.status / results.solver.termination_condition
Result(status, termination_condition) ==
  [status |-> status, termination_condition |-> termination_condition]

\* what opt.solve may return: the result object, and the solution it loads
\* into the instance (none when it found none)
SolveOutcomes(model) ==
  LET sols == Solutions(model)
      failed == {[results |-> Result("error", "error"), load |-> {}]}
  IN  IF sols = {}
      THEN failed \cup {[results |-> Result("warning", "infeasible"), load |-> {}]}
      ELSE IF Unbounded(sols)
      THEN failed \cup {[results |-> Result("warning", "unbounded"), load |-> {}]}
      ELSE failed
           \cup {[results |-> Result("ok", "optimal"), load |-> {s}] : s \in OptimalSolutions(sols)}
           \cup {[results |-> Result("ok", "feasible"), load |-> {s}] : s \in sols}

----------------------------------------------------------------------------
(* The script *)

\* mGEP.create_instance(data): parameters bound, rows materialized, variables
\* unset (their value is None and they are stale until a solution is loaded)
NewInstance(d) ==
  [ p |-> d.p, sc |-> d.sc, g |-> d.g,
    pScProb |-> d.pScProb, pDemand |-> d.pDemand,
    pVarCost |-> d.pVarCost, pInvCost |-> d.pInvCost,
    pUnitCap |-> d.pUnitCap, pIsRenew |-> d.pIsRenew,
    pWeight |-> d.pWeight, pENSCost |-> d.pENSCost,
    pAviProf |-> d.pAviProf,
    eBalance_index |-> d.sc \X d.p,
    eMaxProd_index |-> d.sc \X Range(d.g) \X d.p,
    eENSProd_index |-> d.sc \X d.p,
    stale |-> TRUE,
    vInvesCost |-> None, vOperaCost |-> None,
    vProduct |-> None, vInstalUnits |-> None, vENS |-> None ]

\* mutant: the probabilities are validated too
ValidData_mutant(d) ==
  /\ InDomain(pWeight_within, d.pWeight)
  /\ InDomain(pENSCost_within, d.pENSCost)
  /\ SumOver(d.pScProb, d.sc) = ProbScale

\* the parameter validation create_instance performs
ValidData(d) ==
  /\ InDomain(pWeight_within, d.pWeight)
  /\ InDomain(pENSCost_within, d.pENSCost)

create_instance ==
  /\ pc = "DataPortal"
  /\ IF ValidData(data)
     THEN /\ instance' = NewInstance(data)
          /\ pc' = "instance"
     ELSE /\ instance' = None
          /\ pc' = "ValueError"
  /\ UNCHANGED <<data, results, stdout, csv>>

solve ==
  /\ pc = "instance"
  /\ \E o \in SolveOutcomes(instance) :
       /\ results' = o.results
       /\ instance' = IF o.load = {} THEN instance ELSE CHOOSE s \in o.load : TRUE
  /\ pc' = "solved"
  /\ UNCHANGED <<data, stdout, csv>>

nvariables(model) ==
  2 + Cardinality(model.sc \X Range(model.g) \X model.p) + Cardinality(Range(model.g))
    + Cardinality(model.sc \X model.p)

nconstraints(model) ==
  2 + Cardinality(model.eBalance_index) + Cardinality(model.eMaxProd_index)
    + Cardinality(model.eENSProd_index)

Counts(model) ==
  << <<"Number of variables: ", nvariables(model)>>,
     <<"Number of constraints: ", nconstraints(model)>> >>

\* mutant: the condition only rules out an infeasible problem
IsOptimal_mutant(res) == res.termination_condition # "infeasible"

\* the condition of line 135
IsOptimal(res) == res.status = "ok" /\ res.termination_condition = "optimal"

\* mutant: the rows come out in reverse order
ResultRows_mutant(model) ==
  [i \in 1..Len(model.g) |->
     <<model.g[Len(model.g) + 1 - i], model.vInstalUnits[model.g[Len(model.g) + 1 - i]],
       model.pUnitCap[model.g[Len(model.g) + 1 - i]]
         * model.vInstalUnits[model.g[Len(model.g) + 1 - i]]>>]

\* the rows of the result file, one per element of instance.g.data()
ResultRows(model) ==
  [i \in 1..Len(model.g) |->
     <<model.g[i], model.vInstalUnits[model.g[i]],
       model.pUnitCap[model.g[i]] * model.vInstalUnits[model.g[i]]>>]

\* lines 131-143; reading the value of a variable that holds none raises
WriteResults ==
  /\ pc = "solved"
  /\ IsOptimal(results)
  /\ IF instance.stale
     THEN /\ stdout' = Counts(instance)
          /\ csv' = csv
          /\ pc' = "TypeError"
     ELSE /\ stdout' = Counts(instance)
                         \o << <<"total cost: ", instance.vInvesCost + instance.vOperaCost>> >>
          /\ csv' = << <<"g", "vInstalUnits", "pInstalCap">> >> \o ResultRows(instance)
          /\ pc' = "done"
  /\ UNCHANGED <<data, instance, results>>

\* lines 131-132, 144-148
ReportNotOptimal ==
  /\ pc = "solved"
  /\ ~IsOptimal(results)
  /\ stdout' = Counts(instance)
                 \o << <<"The problem is not optimal.">>,
                       <<"Solver Status: ", results.status>> >>
  /\ pc' = "done"
  /\ UNCHANGED <<data, instance, results, csv>>

Next == create_instance \/ solve \/ WriteResults \/ ReportNotOptimal

----------------------------------------------------------------------------
(* Input data *)

Technologies == <<"gas", "wind">>

\* availability files: nothing supplied, or one entry of the last technology
\* supplied as unavailable, as the smallest fraction, or as fully available
AviFiles(sc, g, p) ==
  { [k \in K |-> v] :
      K \in { {}, {<<"sc1", g[Len(g)], "h1">>} },
      v \in {0, 1, AviScale} }

\* scenario files: the probabilities that sum to 1, every scenario with
\* probability 1, and every scenario with the smallest probability
ProbFiles(sc) ==
  { f \in [sc -> 1..ProbScale] : SumOver(f, sc) = ProbScale }
    \cup { [s \in sc |-> ProbScale], [s \in sc |-> 1] }

Inputs ==
  { [ p |-> p, sc |-> sc, g |-> Technologies,
      pScProb |-> prob, pDemand |-> dem,
      pVarCost |-> [g \in Range(Technologies) |-> IF g = "gas" THEN 1 ELSE 0],
      pInvCost |-> [g \in Range(Technologies) |-> IF g = "gas" THEN 1 ELSE 1],
      pUnitCap |-> [g \in Range(Technologies) |-> IF g = "gas" THEN 2 ELSE 1],
      pIsRenew |-> [g \in Range(Technologies) |-> IF g = "gas" THEN 0 ELSE 1],
      pWeight |-> sca[1], pENSCost |-> sca[2],
      pAviProf |-> avi ] :
      sc \in {{"sc1"}, {"sc1", "sc2"}},
      p \in {{"h1"}, {"h1", "h2"}},
      prob \in UNION {ProbFiles(sc) : sc \in {{"sc1"}, {"sc1", "sc2"}}},
      dem \in UNION {[p -> -1..MaxDemand] : p \in {{"h1"}, {"h1", "h2"}}},
      sca \in {-1, 2} \X {-1, 3},
      avi \in UNION {AviFiles(sc, Technologies, p) : sc \in {{"sc1"}, {"sc1", "sc2"}}, p \in {{"h1"}, {"h1", "h2"}}} }

Init ==
  /\ data \in { d \in Inputs :
                  /\ DOMAIN d.pScProb = d.sc
                  /\ DOMAIN d.pDemand = d.p
                  /\ DOMAIN d.pAviProf \subseteq d.sc \X Range(d.g) \X d.p
                  /\ d.sc = {"sc1"} \/ d.p = {"h1"} }
  /\ instance = None
  /\ results = None
  /\ stdout = <<>>
  /\ csv = <<>>
  /\ pc = "DataPortal"

Spec == Init /\ [][Next]_vars

\* Demand, costs and capacities non-negative, probabilities and availability
\* within [0,1]
WellFormedData(d) ==
  /\ \A p \in d.p : d.pDemand[p] >= 0
  /\ \A g \in Range(d.g) : d.pVarCost[g] >= 0 /\ d.pInvCost[g] >= 0 /\ d.pUnitCap[g] >= 0
  /\ d.pWeight >= 0 /\ d.pENSCost >= 0
  /\ \A s \in d.sc : d.pScProb[s] \in 0..ProbScale
  /\ \A k \in DOMAIN d.pAviProf : d.pAviProf[k] \in 0..AviScale

\* the well-formed data sets only
InitMono == Init /\ WellFormedData(data)

SpecMono == InitMono /\ [][Next]_vars

\* the end-to-end instance: costs counted in units of 0.01 kEUR
EndToEndData ==
  [ p |-> {"h1", "h2"}, sc |-> {"sc1"}, g |-> <<"gas">>,
    pScProb |-> [s \in {"sc1"} |-> ProbScale],
    pDemand |-> [h \in {"h1", "h2"} |-> IF h = "h1" THEN 5 ELSE 15],
    pVarCost |-> [g \in {"gas"} |-> 1],
    pInvCost |-> [g \in {"gas"} |-> 100],
    pUnitCap |-> [g \in {"gas"} |-> 10],
    pIsRenew |-> [g \in {"gas"} |-> 0],
    pWeight |-> 1, pENSCost |-> 100000,
    pAviProf |-> [k \in {"sc1"} \X {"gas"} \X {"h1", "h2"} |-> AviScale] ]

InitE2E ==
  /\ data = EndToEndData
  /\ instance = None
  /\ results = None
  /\ stdout = <<>>
  /\ csv = <<>>
  /\ pc = "DataPortal"

SpecE2E == InitE2E /\ [][Next]_vars

----------------------------------------------------------------------------
(* Properties *)

\* a solution has been loaded into the instance
Loaded == pc \in {"solved", "done"} /\ ~instance.stale

Solved == pc \in {"solved", "done", "TypeError"}

Techs == Range(data.g)

ProbSum == SumOver(data.pScProb, data.sc)

\* the availability the data supplies for (sc,g,p), 1 when it supplies none
A(sc, g, p) ==
  IF <<sc, g, p>> \in DOMAIN data.pAviProf THEN data.pAviProf[<<sc, g, p>>] ELSE AviScale

WellFormed == WellFormedData(data)

\* C1: in every accepted assignment, for every scenario and period, total
\* production plus unserved energy equals demand exactly, and there is one
\* balance row per (sc,p) pair.
C1_PowerBalance ==
  Loaded =>
    /\ instance.eBalance_index = data.sc \X data.p
    /\ \A sc \in data.sc, p \in data.p :
         SumOver([g \in Techs |-> instance.vProduct[<<sc, g, p>>]], Techs)
           + instance.vENS[<<sc, p>>] = data.pDemand[p]

C1_Witness ==
  /\ Loaded
  /\ \E sc \in data.sc, p \in data.p :
       \A g \in Techs : instance.vProduct[<<sc, g, p>>] > 0

\* C2: InstalledUnits[g] is an integer >= 0 for every technology in every
\* accepted assignment, also when a technology has availability 0 everywhere.
C2_InstalledUnitsNonNegative ==
  Loaded /\ WellFormed /\ ProbSum = ProbScale => \A g \in Techs : instance.vInstalUnits[g] >= 0

C2_Witness ==
  /\ Loaded /\ WellFormed /\ ProbSum = ProbScale
  /\ \E g \in Techs : \A sc \in data.sc, p \in data.p : A(sc, g, p) = 0

HasLine(tag) == \E i \in DOMAIN stdout : stdout[i][1] = tag

\* the rows and the total the extraction is to produce
ExpectedRows ==
  [i \in 1..Len(data.g) |->
     <<data.g[i], instance.vInstalUnits[data.g[i]],
       data.pUnitCap[data.g[i]] * instance.vInstalUnits[data.g[i]]>>]

Extracted ==
  /\ csv = << <<"g", "vInstalUnits", "pInstalCap">> >> \o ExpectedRows
  /\ \E i \in DOMAIN stdout :
       stdout[i] = <<"total cost: ", instance.vInvesCost + instance.vOperaCost>>

NothingExtracted ==
  /\ csv = <<>>
  /\ ~HasLine("total cost: ")
  /\ \E i \in DOMAIN stdout : stdout[i] = <<"Solver Status: ", results.status>>

\* C4 (as stated): when the solve ends Optimal or Feasible, the results are
\* extracted: one row per technology in declaration order with units and
\* capacity, and the total cost.
C4_ExtractOnOptimalOrFeasible ==
  pc = "done" /\ results.termination_condition \in {"optimal", "feasible"} => Extracted

\* C4 (amended): the results are extracted when the solve ends Optimal (status
\* ok, termination condition optimal); when it ends Feasible the script reports
\* "not optimal" with the solver status and extracts nothing.
C4_ExtractOnOptimalOnly ==
  /\ pc = "done" /\ results.termination_condition = "optimal" => Extracted
  /\ pc = "done" /\ results.termination_condition = "feasible" => NothingExtracted

C4_Witness ==
  /\ pc = "done"
  /\ results.termination_condition = "optimal"
  /\ Len(data.g) = 2
  /\ instance.vInstalUnits[data.g[1]] # instance.vInstalUnits[data.g[2]]

\* C5: when the solve ends Infeasible, Unbounded or Error, nothing is
\* extracted or written, the solver status is reported, and the script
\* completes without raising.
C5_NoExtractionOnFailure ==
  Solved /\ results.termination_condition \in {"infeasible", "unbounded", "error"} =>
    /\ pc # "TypeError"
    /\ csv = <<>>
    /\ pc = "solved" => ENABLED ReportNotOptimal
    /\ pc = "done" => NothingExtracted

C5_Witness ==
  /\ pc = "done"
  /\ results.termination_condition = "infeasible"

\* moving one MW of row (sc,p) from unserved energy to technology g
MoveToProduction(sc, g, p) ==
  [instance EXCEPT !.vProduct[<<sc, g, p>>] = @ + 1, !.vENS[<<sc, p>>] = @ - 1]

\* C6: every accepted assignment has Production[sc,g,p] <= A * UnitCapacity[g]
\* * InstalledUnits[g] with A the supplied availability, or 1 where none is
\* supplied, one capacity row per (sc,g,p); and the limit is no tighter than
\* that: serving one more MW within it is accepted as far as capacity goes.
C6_CapacityLimit ==
  Loaded =>
    /\ instance.eMaxProd_index = data.sc \X Techs \X data.p
    /\ \A sc \in data.sc, g \in Techs, p \in data.p :
         /\ AviScale * instance.vProduct[<<sc, g, p>>]
              <= A(sc, g, p) * data.pUnitCap[g] * instance.vInstalUnits[g]
         /\ ( /\ instance.vENS[<<sc, p>>] >= 1
              /\ AviScale * (instance.vProduct[<<sc, g, p>>] + 1)
                   <= A(sc, g, p) * data.pUnitCap[g] * instance.vInstalUnits[g] )
            => eMaxProd(MoveToProduction(sc, g, p), sc, g, p)

C6_Witness ==
  /\ Loaded
  /\ \E k \in data.sc \X Techs \X data.p :
       /\ k \notin DOMAIN data.pAviProf
       /\ instance.vProduct[k] > 0
       /\ \E j \in DOMAIN data.pAviProf :
            j[2] = k[2] /\ data.pAviProf[j] = 1 /\ instance.vProduct[j] > 0

\* C7: in every accepted assignment the investment total is the sum over g of
\* InvestmentCost * UnitCapacity * InstalledUnits and the operating total is
\* Weight times the probability-weighted production and unserved-energy cost;
\* an optimal solution minimizes the sum of the two totals.
C7_CostIdentity ==
  Loaded =>
    /\ instance.vInvesCost =
         ProbScale * SumOver([g \in Techs |->
                                data.pInvCost[g] * data.pUnitCap[g] * instance.vInstalUnits[g]],
                             Techs)
    /\ instance.vOperaCost =
         data.pWeight *
           ( SumOver([k \in data.sc \X Techs \X data.p |->
                        data.pScProb[k[1]] * data.pVarCost[k[2]] * instance.vProduct[k]],
                     data.sc \X Techs \X data.p)
           + SumOver([k \in data.sc \X data.p |->
                        data.pScProb[k[1]] * data.pENSCost * instance.vENS[k]],
                     data.sc \X data.p) )
    /\ pc = "solved" /\ IsOptimal(results) =>
         \A s \in Solutions(NewInstance(data)) :
           instance.vInvesCost + instance.vOperaCost <= s.vInvesCost + s.vOperaCost

C7_Witness ==
  /\ Loaded /\ IsOptimal(results)
  /\ Cardinality(data.sc) = 2
  /\ instance.vInvesCost > 0
  /\ instance.vOperaCost > 0
  /\ \E k \in DOMAIN instance.vENS : instance.vENS[k] > 0

LowerDemand(p) == [data EXCEPT !.pDemand[p] = @ - 1]

\* C9: of two well-formed instances that differ only in that Demand is larger
\* in the second, the second has the greater or equal optimal total cost
\* (stated for one MW more in one period; larger differences are chains of these).
C9_DemandMonotone ==
  pc = "solved" /\ IsOptimal(results) /\ WellFormed =>
    \A p \in data.p :
      data.pDemand[p] >= 1 =>
        \A s \in OptimalSolutions(Solutions(NewInstance(LowerDemand(p)))) :
          s.vInvesCost + s.vOperaCost <= instance.vInvesCost + instance.vOperaCost

C9_Witness ==
  /\ pc = "solved" /\ IsOptimal(results) /\ WellFormed
  /\ \E p \in data.p :
       /\ data.pDemand[p] >= 1
       /\ \E s \in OptimalSolutions(Solutions(NewInstance(LowerDemand(p)))) :
            s.vInvesCost + s.vOperaCost < instance.vInvesCost + instance.vOperaCost

\* no investment, no production, all demand unserved
RecourseOnly(model) ==
  Load(model, [g \in Range(model.g) |-> 0],
       [k \in model.sc \X model.p |->
          [prod |-> [g \in Range(model.g) |-> 0], ens |-> model.pDemand[k[2]]]])

\* C10: a well-formed instance accepts the assignment with no investment, no
\* production and all demand unserved, so its solve never ends Infeasible; and
\* it never ends Unbounded.
C10_FeasibilityRecourse ==
  WellFormed =>
    /\ pc = "instance" => Satisfies(RecourseOnly(instance))
    /\ Solved => results.termination_condition \notin {"infeasible", "unbounded"}

C10_Witness ==
  /\ Loaded /\ WellFormed
  /\ instance = RecourseOnly(NewInstance(data))
  /\ \E p \in data.p : data.pDemand[p] > 0
  /\ \E g \in Techs : \A sc \in data.sc, p \in data.p : A(sc, g, p) = 0

====
